---- MODULE Spec2Model ----
(***************************************************************************)
(* Product CRUD service with offset and cursor pagination.                 *)
(*                                                                         *)
(* Layers, as in the source:                                               *)
(*   controllers (src/unnamed/part_000)  parse + validate the request      *)
(*   ProductService (src/src/services/product.service.ts)                  *)
(*   ProductRepository + zod schemas                                       *)
(*                     (src/src/repositories/product.repository.ts)        *)
(*   the Product table (prisma schema, src/src/config/db.ts:102-112)       *)
(*                                                                         *)
(* The table is a set of rows.  `orderBy: { createdAt: "desc" }` fixes the *)
(* order of two rows only when their createdAt differ; the order of rows   *)
(* with equal createdAt is chosen anew by every query.                     *)
(***************************************************************************)
EXTENDS Integers, Sequences, FiniteSets, TLC

VARIABLES
    store,   \* the Product table: a set of rows
    used,    \* every id the table ever handed out (uuid() never repeats)
    now,     \* the database clock, the value of now()
    last,    \* the request answered last, with its response
    off,     \* the GET /products/offset request under way
    trav,    \* a client that follows meta.nextCursor page after page
    mut      \* the PUT and DELETE /products/:id requests under way, one per slot

vars == <<store, used, now, last, off, trav, mut>>

----------------------------------------------------------------------------
(* Bounds of the model *)

MaxIds == 3
MaxTime == 2
MaxReqs == 1

(* Constants of the program *)

DefaultLimit == 10
DefaultPage == 1
MinNameLen == 3

(* uuid() values, as text *)
IdNames == <<"u1", "u2", "u3", "u4", "u5", "u6">>
Ids == {IdNames[i] : i \in 1..MaxIds}

(* uuid() repeating the first id it handed out *)
uuidRepeats(usedIds) == IdNames[1]

(* uuid(): an id never handed out before.  The program only ever tests   *)
(* ids for equality, so which unused id it is makes no difference: the   *)
(* model hands them out in the order of IdNames.                         *)
uuid(usedIds) == IdNames[Cardinality(usedIds) + 1]
Reqs == 1..MaxReqs

(* undefined, for text values (an absent query parameter, no cursor) *)
Absent == "undefined"
NotUuid == "not-a-uuid"

(* JavaScript numbers: an integer or NaN *)
Num(v) == [nan |-> FALSE, val |-> v]
NaN == [nan |-> TRUE, val |-> 0]

----------------------------------------------------------------------------
(* Sequences of rows *)

IdsOf(rows) == [i \in 1..Len(rows) |-> rows[i].id]

Range(s) == {s[i] : i \in 1..Len(s)}

Min(a, b) == IF a < b THEN a ELSE b

(* Array.prototype.slice(0, -1): all but the last element *)
SliceDropLast(items) == SubSeq(items, 1, Len(items) - 1)

(* Math.ceil(a / b) for a >= 0 and b # 0 *)
Ceil(a, b) == IF b > 0 THEN (a + b - 1) \div b ELSE 0 - (a \div (0 - b))

----------------------------------------------------------------------------
(* The Product table *)

StoreIds(S) == {p.id : p \in S}

Row(S, id) == CHOOSE p \in S : p.id = id

(* orderBy: { createdAt: "desc" }: every arrangement of the rows in which  *)
(* createdAt never increases; rows with equal createdAt in any order.  The *)
(* database picks one of them for each query.                              *)
RECURSIVE Orderings(_)
Orderings(S) ==
    IF S = {} THEN {<<>>}
    ELSE LET newest == {p \in S : \A q \in S : p.createdAt >= q.createdAt}
         IN  UNION {{<<p>> \o o : o \in Orderings(S \ {p})} : p \in newest}

(* skip / take of findMany over an arranged result *)
Window(o, skip, take) == SubSeq(o, skip + 1, Min(Len(o), skip + take))

(* cursor: { id }: the arranged result from the cursor's row onwards *)
FromCursor(o, cursor) ==
    LET k == CHOOSE i \in 1..Len(o) : o[i].id = cursor
    IN  SubSeq(o, k, Len(o))

(* a negative take counts from the end of the arranged result *)
WindowBack(o, skip, n) ==
    SubSeq(o, IF Len(o) - skip - n + 1 < 1 THEN 1 ELSE Len(o) - skip - n + 1,
           Len(o) - skip)

(* prisma.product.findMany without a cursor, over the arrangement o the   *)
(* database picked; the client takes a skip of 0 or more only             *)
findMany(o, skip, take) ==
    IF take >= 0 THEN Window(o, skip, take) ELSE WindowBack(o, skip, 0 - take)

skipRefused(skip) == skip < 0

(* prisma.product.findMany with cursor: { id } *)
findManyCursor(o, cursor, skip, take) == Window(FromCursor(o, cursor), skip, take)

----------------------------------------------------------------------------
(* Validators (zod schemas) *)

(* createProductSchema with nonnegative() for positive() on price *)
createProductSchemaZeroPrice(body) ==
    /\ body.nameLen >= MinNameLen
    /\ body.price >= 0
    /\ body.stock >= 0

(* z.string().min(3) on name, z.number().positive() on price,             *)
(* z.number().int().nonnegative() on stock; a name is modelled by its     *)
(* length, the only thing the schema looks at.                            *)
createProductSchema(body) ==
    /\ body.nameLen >= MinNameLen
    /\ body.price > 0
    /\ body.stock >= 0

(* params.id: z.string().uuid(); body.price: z.number().positive().optional() *)
updateProductSchema(id, data) ==
    /\ id # NotUuid
    /\ (data.hasPrice => data.price > 0)

(* querySchema: page, limit: z.string().transform(Number).optional();     *)
(* cursor: z.string().optional().  Every string passes; the transform is  *)
(* JavaScript's Number() on the query-string text.                        *)
Number(s) ==
    CASE s = Absent -> NaN
      [] s = ""     -> Num(0)
      [] s = "0"    -> Num(0)
      [] s = "-1"   -> Num(-1)
      [] s = "1"    -> Num(1)
      [] s = "2"    -> Num(2)
      [] s = "3"    -> Num(3)
      [] OTHER      -> NaN

querySchema(q) == TRUE

(* JavaScript truthiness of a number *)
Truthy(n) == ~n.nan /\ n.val # 0

(* Number(query.limit) || 10 *)
parsedLimit(q) == IF Truthy(Number(q)) THEN Number(q).val ELSE DefaultLimit

(* Number(query.page) || 1 *)
parsedPage(q) == IF Truthy(Number(q)) THEN Number(q).val ELSE DefaultPage

(* (query.cursor as string) || undefined: the empty string is falsy *)
parsedCursor(q) == IF q = "" THEN Absent ELSE q

----------------------------------------------------------------------------
(* ProductRepository *)

Null == [id |-> "null"]

findById(S, id) == IF id \in StoreIds(S) THEN Row(S, id) ELSE Null

(* what the database client does with a cursor that names no row: the   *)
(* repository leaves it to the client, which answers with no rows or     *)
(* with a failure                                                        *)
CursorMisses == {"empty", "error"}

(* findAllCursor without skip: 1 *)
findAllCursorNoSkip(o, miss, take, cursor) ==
    IF cursor = Absent
    THEN [ok |-> TRUE, asked |-> take + 1, rows |-> findMany(o, 0, take + 1)]
    ELSE IF cursor \in Range(IdsOf(o))
    THEN [ok |-> TRUE, asked |-> take + 1,
          rows |-> findManyCursor(o, cursor, 0, take + 1)]
    ELSE [ok |-> miss = "empty", asked |-> take + 1, rows |-> <<>>]

(* findAllCursor(take, cursor): take + 1 rows, after the cursor's row     *)
(* when a cursor is given (`if (cursor)`: undefined is falsy); o is the   *)
(* arrangement the database picked, miss its answer to a dangling cursor. *)
findAllCursor(o, miss, take, cursor) ==
    IF cursor = Absent
    THEN [ok |-> TRUE, asked |-> take + 1, rows |-> findMany(o, 0, take + 1)]
    ELSE IF cursor \in Range(IdsOf(o))
    THEN [ok |-> TRUE, asked |-> take + 1,
          rows |-> findManyCursor(o, cursor, 1, take + 1)]
    ELSE [ok |-> miss = "empty", asked |-> take + 1, rows |-> <<>>]

(* findAllOffset(skip, take): the two statements of the $transaction.     *)
(* It names no isolation level, so it runs at the database's default,     *)
(* under which each statement reads the rows committed when it starts.    *)
findAllOffsetData(o, skip, take) == findMany(o, skip, take)

findAllOffsetTotal(S) == Cardinality(S)

----------------------------------------------------------------------------
(* ProductService *)

(* getProductsCursor with the page-full test off by one: >= for > *)
getProductsCursorOffByOne(limit, items) ==
    LET hasNextPage == Len(items) >= limit
        data == IF hasNextPage THEN SliceDropLast(items) ELSE items
        nextCursor == IF hasNextPage /\ Len(data) > 0
                      THEN data[Len(data)].id ELSE Absent
    IN  [data |-> data, hasNextPage |-> hasNextPage, nextCursor |-> nextCursor]

(* getProductsCursor(limit, cursor), given the repository's answer *)
getProductsCursor(limit, items) ==
    LET hasNextPage == Len(items) > limit
        data == IF hasNextPage THEN SliceDropLast(items) ELSE items
        nextCursor == IF hasNextPage /\ Len(data) > 0
                      THEN data[Len(data)].id ELSE Absent
    IN  [data |-> data, hasNextPage |-> hasNextPage, nextCursor |-> nextCursor]

(* offsetSkip with page for page - 1 *)
offsetSkipPage(page, limit) == page * limit

(* getProductsOffset(page, limit): the skip handed to the repository *)
offsetSkip(page, limit) == (page - 1) * limit

(* offsetMeta with Math.floor for Math.ceil *)
offsetMetaFloor(page, limit, total) ==
    [total |-> total, page |-> page, limit |-> limit,
     totalPages |-> total \div limit]

(* getProductsOffset(page, limit): the meta of the answer *)
offsetMeta(page, limit, total) ==
    [total |-> total, page |-> page, limit |-> limit,
     totalPages |-> Ceil(total, limit)]

(* notFound with the existence test left out *)
notFoundNever(product) == FALSE

(* updateProduct / deleteProduct: `if (!product) throw new Error(...)` *)
notFound(product) == product = Null

----------------------------------------------------------------------------
(* The HTTP status of an answer *)

(* res.status(201).json(product) in createProduct, res.json(data) in the  *)
(* other handlers; every error goes to next(error) or rejects the         *)
(* handler's promise, and the application registers no error middleware:  *)
(* the framework's own handler answers, with err.status when the error    *)
(* has one and 500 otherwise.  Neither a ZodError, nor the service's      *)
(* Error, nor a TypeError, nor a database client error has a status.      *)
statusOf(outcome) ==
    CASE outcome = "Created" -> 201
      [] outcome = "ok"      -> 200
      [] OTHER               -> 500

----------------------------------------------------------------------------
(* Inputs *)

(* request bodies of POST /products: name length, price, stock *)
Bodies == [nameLen : {2, 3}, price : {-1, 0, 1}, stock : {0}]

(* the body the background writer of the paging specifications sends *)
PlainBodies == {[nameLen |-> 3, price |-> 1, stock |-> 0]}

(* an id a client made up; uuid() never hands it out *)
ClientId == "c1"

(* the body {}.  A body is modelled by the keys the program looks at or   *)
(* hands on: price (checked by updateProductSchema), and id and createdAt *)
(* (columns of the table that the schema does not name).                  *)
EmptyBody == [hasPrice |-> FALSE, price |-> 0, hasId |-> FALSE, id |-> Absent,
              hasCreatedAt |-> FALSE, createdAt |-> 0]

(* request bodies of PUT /products/:id: {}, { price: 0 }, { price: 2 } *)
Updates == {EmptyBody,
            [EmptyBody EXCEPT !.hasPrice = TRUE, !.price = 0],
            [EmptyBody EXCEPT !.hasPrice = TRUE, !.price = 2]}

(* bodies with keys the schema does not name: { id }, { createdAt },      *)
(* { price: 2, id }                                                       *)
RawUpdates ==
    {[EmptyBody EXCEPT !.hasId = TRUE, !.id = i] : i \in {ClientId, IdNames[1]}}
    \cup {[EmptyBody EXCEPT !.hasCreatedAt = TRUE, !.createdAt = 1],
          [EmptyBody EXCEPT !.hasPrice = TRUE, !.price = 2,
                            !.hasId = TRUE, !.id = ClientId]}

(* :id path parameters *)
PathIds == Ids \cup {NotUuid}

(* ?limit= texts *)
QueryLimits == {Absent, "0", "1", "2"}

(* ?page= texts *)
QueryPages == {Absent, "2"}

(* ?limit= and ?page= texts of every kind: absent, zero, negative, not a *)
(* number, positive                                                      *)
AnyLimits == {Absent, "0", "-1", "abc", "1"}

AnyPages == {Absent, "0", "-1", "2"}

(* ?cursor= texts *)
QueryCursors == Ids \cup {Absent}

----------------------------------------------------------------------------
(* Initial state: an empty table, no request made *)

Idle == [pc |-> "idle"]

Init ==
    /\ store = {}
    /\ used = {}
    /\ now = 0
    /\ last = [kind |-> "none"]
    /\ off = Idle
    /\ trav = Idle
    /\ mut = [r \in Reqs |-> Idle]

(* What a committed write does to a traversal: it has seen a write, and *)
(* while it is under way the products that were there at its first call *)
(* and still are (alive) are those the write leaves                     *)
travAfterWrite ==
    IF trav.pc = "idle" THEN trav
    ELSE [trav EXCEPT !.dirty = TRUE,
                      !.alive = IF trav.pc = "paging"
                                THEN @ \cap StoreIds(store') ELSE @]

Written ==
    /\ off' = off
    /\ trav' = travAfterWrite

----------------------------------------------------------------------------
(* The clock *)

Tick ==
    /\ now < MaxTime
    /\ now' = now + 1
    /\ UNCHANGED <<store, used, last, off, trav, mut>>

----------------------------------------------------------------------------
(* POST /products *)

createProduct(body) ==
    IF createProductSchema(body)
    THEN /\ Cardinality(used) < MaxIds
         /\ LET id == uuid(used)
                product == [id |-> id, createdAt |-> now, nameLen |-> body.nameLen,
                            price |-> body.price, stock |-> body.stock]
            IN  /\ store' = store \cup {product}
                /\ used' = used \cup {id}
                /\ last' = [kind |-> "create", body |-> body, called |-> TRUE,
                            outcome |-> "Created", product |-> product]
                /\ Written
                /\ UNCHANGED <<now, mut>>
    ELSE /\ last' = [kind |-> "create", body |-> body, called |-> FALSE,
                     outcome |-> "ValidationError", product |-> Null]
         /\ UNCHANGED <<store, used, now, off, trav, mut>>

----------------------------------------------------------------------------
(* PUT /products/:id and DELETE /products/:id *)

(* the handler up to the await of repo.update / repo.delete *)
mutStart(r, kind, id, data) ==
    /\ r \in DOMAIN mut
    /\ mut[r].pc = "idle"
    /\ LET req == [kind |-> kind, id |-> id, data |-> data]
       IN  IF ~updateProductSchema(id, data)
           THEN /\ last' = req @@ [outcome |-> "ValidationError", calls |-> 0]
                /\ mut' = mut
           ELSE IF notFound(findById(store, id))
           THEN /\ last' = req @@ [outcome |-> "NotFound", calls |-> 0]
                /\ mut' = mut
           ELSE /\ mut' = [mut EXCEPT ![r] = req @@ [pc |-> "found"]]
                /\ last' = last
    /\ UNCHANGED <<store, used, now, off, trav>>

updateProduct(r, id, data) == mutStart(r, "update", id, data)

deleteProduct(r, id) == mutStart(r, "delete", id, EmptyBody)

(* the primary key: an update that would give the row the id of another *)
(* row is refused by the database                                        *)
uniqueViolation(S, id, data) == data.hasId /\ data.id \in StoreIds(S) \ {id}

(* prisma.product.update({ where: { id }, data }): every key of data that *)
(* names a column is written to the row                                   *)
repoUpdate(S, id, data) ==
    LET row == Row(S, id)
        new == [row EXCEPT
                  !.price = IF data.hasPrice THEN data.price ELSE @,
                  !.id = IF data.hasId THEN data.id ELSE @,
                  !.createdAt = IF data.hasCreatedAt THEN data.createdAt ELSE @]
    IN  (S \ {row}) \cup {new}

(* prisma.product.delete({ where: { id } }) *)
repoDelete(S, id) == S \ {Row(S, id)}

(* the awaited repo.update / repo.delete and the response: the handler   *)
(* hands req.body, not the parsed body, to the service; the database     *)
(* client fails when the row is gone or the primary key would repeat     *)
mutApply(r) ==
    /\ r \in DOMAIN mut
    /\ mut[r].pc = "found"
    /\ LET req == [kind |-> mut[r].kind, id |-> mut[r].id, data |-> mut[r].data]
       IN  IF /\ mut[r].id \in StoreIds(store)
              /\ ~(mut[r].kind = "update"
                    /\ uniqueViolation(store, mut[r].id, mut[r].data))
           THEN /\ store' = IF mut[r].kind = "update"
                            THEN repoUpdate(store, mut[r].id, mut[r].data)
                            ELSE repoDelete(store, mut[r].id)
                /\ last' = req @@ [outcome |-> "ok", calls |-> 1]
                /\ Written
           ELSE /\ last' = req @@ [outcome |-> "StoreError", calls |-> 1]
                /\ UNCHANGED <<store, off, trav>>
    /\ mut' = [mut EXCEPT ![r] = Idle]
    /\ UNCHANGED <<used, now>>

----------------------------------------------------------------------------
(* GET /products/:id *)

(* the handler: it validates the id, then calls service.getProductById,  *)
(* a method ProductService does not have: the call throws a TypeError    *)
(* inside the try, which goes to next(error)                             *)
getProductById(id) ==
    /\ last' = [kind |-> "get", id |-> id, data |-> EmptyBody,
                outcome |-> IF updateProductSchema(id, EmptyBody)
                            THEN "TypeError" ELSE "ValidationError",
                calls |-> 0]
    /\ UNCHANGED <<store, used, now, off, trav, mut>>

----------------------------------------------------------------------------
(* GET /products/cursor *)

(* no answer of the service: the repository's failure went to next(error) *)
NoPage == [data |-> <<>>, hasNextPage |-> FALSE, nextCursor |-> Absent]

(* the handler: parse the query, call the service, answer *)
cursorResponse(o, miss, qlimit, qcursor) ==
    LET limit == parsedLimit(qlimit)
        cursor == parsedCursor(qcursor)
        a == findAllCursor(o, miss, limit, cursor)
        body == IF a.ok THEN getProductsCursor(limit, a.rows)
                ELSE NoPage
    IN  [kind |-> "cursor", qlimit |-> qlimit, qcursor |-> qcursor,
         limit |-> limit, cursor |-> cursor, called |-> TRUE,
         outcome |-> IF a.ok THEN "ok" ELSE "Error",
         asked |-> a.asked, items |-> a.rows,
         data |-> body.data, hasNextPage |-> body.hasNextPage,
         nextCursor |-> body.nextCursor]

(* the answers of the database client that differ for this cursor *)
Misses(S, cursor) ==
    IF cursor = Absent \/ cursor \in StoreIds(S) THEN {"empty"} ELSE CursorMisses

getProductsCursorReq(qlimit, qcursor) ==
    /\ querySchema(qlimit)
    /\ last' \in {cursorResponse(o, miss, qlimit, qcursor) :
                      o \in Orderings(store),
                      miss \in Misses(store, parsedCursor(qcursor))}
    /\ UNCHANGED <<store, used, now, off, trav, mut>>

----------------------------------------------------------------------------
(* GET /products/offset *)

(* the handler up to the first statement of the transaction: the window *)
getProductsOffsetReq(qpage, qlimit) ==
    /\ querySchema(qlimit)
    /\ off.pc = "idle"
    /\ LET page == parsedPage(qpage)
           limit == parsedLimit(qlimit)
           skip == offsetSkip(page, limit)
       IN  IF skipRefused(skip)
           THEN /\ last' = [kind |-> "offset", qpage |-> qpage, qlimit |-> qlimit,
                            page |-> page, limit |-> limit, skip |-> skip,
                            called |-> TRUE, outcome |-> "Error"]
                /\ off' = off
           ELSE /\ off' \in {[pc |-> "window", qpage |-> qpage, qlimit |-> qlimit,
                                page |-> page, limit |-> limit, skip |-> skip,
                                data |-> findAllOffsetData(o, skip, limit),
                                rows |-> Cardinality(store)] : o \in Orderings(store)}
                /\ last' = last
    /\ UNCHANGED <<store, used, now, trav, mut>>

(* the second statement, the count, and the answer *)
getProductsOffsetCount ==
    /\ off.pc = "window"
    /\ last' = [kind |-> "offset", qpage |-> off.qpage, qlimit |-> off.qlimit,
                page |-> off.page, limit |-> off.limit, skip |-> off.skip,
                called |-> TRUE, outcome |-> "ok", data |-> off.data,
                meta |-> offsetMeta(off.page, off.limit, findAllOffsetTotal(store)),
                rows |-> off.rows]
    /\ off' = Idle
    /\ UNCHANGED <<store, used, now, trav, mut>>

----------------------------------------------------------------------------
(* A client walking the cursor pages: GET /products/cursor?limit=, then  *)
(* GET /products/cursor?limit=&cursor=<meta.nextCursor> while            *)
(* meta.hasNextPage                                                      *)

MaxCalls == 4

travStart(qlimit) ==
    /\ trav.pc # "paging"
    /\ \E r \in {cursorResponse(o, "empty", qlimit, Absent) : o \in Orderings(store)} :
          trav' = [pc |-> IF r.hasNextPage THEN "paging" ELSE "done",
                   qlimit |-> qlimit, limit |-> r.limit, cursor |-> r.nextCursor,
                   concat |-> r.data, prev |-> <<>>, page |-> r.data,
                   calls |-> 1, dirty |-> FALSE, alive |-> StoreIds(store)]
    /\ UNCHANGED <<store, used, now, last, off, mut>>

travNext ==
    /\ trav.pc = "paging"
    /\ trav.calls < MaxCalls
    /\ \E r \in {cursorResponse(o, miss, trav.qlimit, trav.cursor) :
                      o \in Orderings(store), miss \in Misses(store, trav.cursor)} :
          trav' = [trav EXCEPT
                     !.pc = IF r.outcome # "ok" THEN "failed"
                            ELSE IF r.hasNextPage THEN "paging" ELSE "done",
                     !.cursor = r.nextCursor,
                     !.concat = trav.concat \o r.data,
                     !.prev = trav.page,
                     !.page = r.data,
                     !.calls = trav.calls + 1]
    /\ UNCHANGED <<store, used, now, last, off, mut>>

----------------------------------------------------------------------------
(* Specifications *)

(* the writer behind the list requests: creates and deletes *)
Writer ==
    \/ Tick
    \/ \E body \in PlainBodies : createProduct(body)
    \/ \E id \in Ids : deleteProduct(1, id)
    \/ mutApply(1)

NextCursor ==
    \/ Writer
    \/ \E ql \in QueryLimits \ {"0"}, qc \in QueryCursors : getProductsCursorReq(ql, qc)

NextOffset ==
    \/ Writer
    \/ \E qp \in QueryPages, ql \in QueryLimits \ {Absent} : getProductsOffsetReq(qp, ql)
    \/ getProductsOffsetCount

NextTrav ==
    \/ Tick
    \/ \E body \in PlainBodies : createProduct(body)
    \/ \E ql \in {"1", "2"} : travStart(ql)
    \/ travNext
    \/ getProductsOffsetReq(Absent, Absent)
    \/ getProductsOffsetCount

NextCrud ==
    \/ \E body \in Bodies : createProduct(body)
    \/ \E r \in Reqs, id \in PathIds, data \in Updates : updateProduct(r, id, data)
    \/ \E r \in Reqs, id \in PathIds : deleteProduct(r, id)
    \/ \E r \in Reqs : mutApply(r)

(* requests on one product, PUT with keys the schema does not name,     *)
(* one PUT or DELETE at a time                                         *)
NextUpdate ==
    \/ \E id \in PathIds : getProductById(id)
    \/ \E body \in PlainBodies : createProduct(body)
    \/ \E id \in Ids, data \in RawUpdates : updateProduct(1, id, data)
    \/ \E id \in Ids : deleteProduct(1, id)
    \/ mutApply(1)

(* a traversal with creates and deletes going on: no two products are   *)
(* created at the same time, and the product whose id is the cursor of   *)
(* the next call is not deleted                                          *)
NextTravWrites ==
    \/ Tick
    \/ /\ \A p \in store : p.createdAt < now
       /\ \E body \in PlainBodies : createProduct(body)
    \/ \E id \in Ids : deleteProduct(1, id)
    \/ /\ mut[1].pc = "found"
       /\ trav.pc = "paging" => mut[1].id # trav.cursor
       /\ mutApply(1)
    \/ \E ql \in {"1", "2"} : travStart(ql)
    \/ travNext

SpecTravWrites == Init /\ [][NextTravWrites]_vars

(* list requests with every kind of ?page= and ?limit= *)
NextQuery ==
    \/ \E body \in PlainBodies : createProduct(body)
    \/ \E ql \in AnyLimits, qc \in QueryCursors : getProductsCursorReq(ql, qc)
    \/ \E qp \in AnyPages, ql \in AnyLimits : getProductsOffsetReq(qp, ql)
    \/ getProductsOffsetCount

SpecQuery == Init /\ [][NextQuery]_vars

(* PUT and DELETE requests under way at the same time: one slot more     *)
(* than Reqs, and the table empty as in Init                             *)
RaceReqs == 1..(MaxReqs + 1)

InitRace ==
    /\ store = {}
    /\ used = {}
    /\ now = 0
    /\ last = [kind |-> "none"]
    /\ off = Idle
    /\ trav = Idle
    /\ mut = [r \in RaceReqs |-> Idle]

PriceUpdates == {[EmptyBody EXCEPT !.hasPrice = TRUE, !.price = 2]}

NextRace ==
    \/ \E body \in PlainBodies : createProduct(body)
    \/ \E r \in RaceReqs, id \in Ids, data \in PriceUpdates : updateProduct(r, id, data)
    \/ \E r \in RaceReqs, id \in Ids : deleteProduct(r, id)
    \/ \E r \in RaceReqs : mutApply(r)

SpecRace == InitRace /\ [][NextRace]_vars

Next == NextCursor \/ NextOffset \/ NextTrav \/ NextCrud \/ NextUpdate \/ NextRace
          \/ NextQuery \/ NextTravWrites

SpecCursor == Init /\ [][NextCursor]_vars
SpecOffset == Init /\ [][NextOffset]_vars
SpecTrav == Init /\ [][NextTrav]_vars
SpecCrud == Init /\ [][NextCrud]_vars

SpecUpdate == Init /\ [][NextUpdate]_vars
Spec == Init /\ [][Next]_vars

----------------------------------------------------------------------------
(* Properties *)

(* C1: a traversal from no cursor to hasNextPage = false, with no write  *)
(* during it, returns every product of the table exactly once, in the    *)
(* order an offset request for page 1 with a limit of at least the       *)
(* number of products returns them.                                      *)
C1_TraversalComplete ==
    (trav.pc = "done" /\ ~trav.dirty) =>
        /\ Len(trav.concat) = Cardinality(store)
        /\ Range(trav.concat) = store
        /\ (/\ last.kind = "offset"
            /\ last.page = 1
            /\ last.limit >= Cardinality(store)
            /\ last.rows = Cardinality(store)
            /\ last.meta.total = Cardinality(store))
           => last.data = trav.concat

(* C2: getProductsCursor asks for limit + 1 rows; given limit + 1 rows   *)
(* it answers hasNextPage = true, the first limit rows and the id of the *)
(* last of them as nextCursor; given limit rows or fewer it answers      *)
(* hasNextPage = false, all the rows and no nextCursor.                  *)
C2_OverFetchByOne ==
    (last.kind = "cursor" /\ last.outcome = "ok" /\ last.limit >= 1) =>
        /\ last.asked = last.limit + 1
        /\ Len(last.items) <= last.limit + 1
        /\ Len(last.items) = last.limit + 1 =>
              /\ last.hasNextPage
              /\ last.data = SubSeq(last.items, 1, last.limit)
              /\ last.nextCursor = last.items[last.limit].id
        /\ Len(last.items) <= last.limit =>
              /\ ~last.hasNextPage
              /\ last.data = last.items
              /\ last.nextCursor = Absent

(* a full page after a cursor, with a further page behind it *)
C2_Witness ==
    /\ last.kind = "cursor"
    /\ last.outcome = "ok"
    /\ last.cursor # Absent
    /\ last.limit = 1
    /\ Len(last.items) = 2
    /\ last.hasNextPage
    /\ last.nextCursor = last.data[1].id

(* C3: the page fetched with the id of the last row of the previous page *)
(* as cursor holds neither that row nor any row of the previous page.    *)
C3_NoReReturn ==
    (trav.pc # "idle" /\ trav.calls >= 2) =>
        Range(trav.page) \cap Range(trav.prev) = {}

(* C4: an offset answer holds at most limit rows, echoes page and limit, *)
(* and has totalPages = ceil(total / limit), with total the number of    *)
(* products in the table.                                                *)
C4_OffsetMeta ==
    (last.kind = "offset" /\ last.page >= 1 /\ last.limit >= 1) =>
        /\ Len(last.data) <= last.limit
        /\ last.meta.page = last.page
        /\ last.meta.limit = last.limit
        /\ last.meta.total = Cardinality(store)
        /\ last.meta.totalPages * last.limit >= last.meta.total
        /\ (last.meta.totalPages - 1) * last.limit < last.meta.total

(* page 2 of three products, two to the page *)
C4_Witness ==
    /\ last.kind = "offset"
    /\ last.page = 2
    /\ last.limit = 2
    /\ Len(last.data) = 1
    /\ last.meta.total = 3
    /\ last.meta.totalPages = 2

(* C5: the rows and the total of an offset answer come from one state of *)
(* the table: total is the number of products in the state the window    *)
(* was read from.                                                        *)
C5_OneSnapshot ==
    last.kind = "offset" => last.meta.total = last.rows

(* C6: deleteProduct and updateProduct on an id no product has end with  *)
(* NotFound, issue no update or delete to the table and leave it as it   *)
(* was: no request goes on to its update or delete when findById found   *)
(* nothing, and a request answered without one was answered NotFound,    *)
(* with no call made and the table untouched.                            *)
C6_NotFoundNoMutation ==
    [][/\ \A r \in Reqs :
            (mut[r].pc = "idle" /\ mut'[r].pc = "found")
            => mut'[r].id \in StoreIds(store)
       /\ (/\ mut' = mut
           /\ last' # last
           /\ last'.kind \in {"update", "delete"}
           /\ last'.outcome # "ValidationError")
          => /\ last'.id \notin StoreIds(store)
             /\ last'.outcome = "NotFound"
             /\ last'.calls = 0
             /\ store' = store]_vars

(* a delete and an update answered NotFound on a table that has rows *)
C6_Witness ==
    /\ last.kind \in {"update", "delete"}
    /\ last.outcome = "NotFound"
    /\ last.id \notin StoreIds(store)
    /\ store # {}

(* C7: a cursor request whose cursor names no product ends with          *)
(* InvalidCursor.                                                        *)
C7_InvalidCursor ==
    (last.kind = "cursor" /\ last.cursor # Absent /\ last.cursor \notin StoreIds(store))
        => last.outcome = "InvalidCursor"

C9_ZeroLimitRejected ==
    (last.kind \in {"offset", "cursor"} /\ last.qlimit = "0")
        => (last.outcome = "ValidationError" /\ ~last.called)

(* C10: two identical list requests with no write between them return    *)
(* the same rows in the same order.                                      *)
C10_StableOrder ==
    [][(/\ last.kind = "cursor"
        /\ last'.kind = "cursor"
        /\ last.outcome = "ok"
        /\ last'.outcome = "ok"
        /\ last'.qlimit = last.qlimit
        /\ last'.qcursor = last.qcursor
        /\ store' = store)
       => last'.data = last.data]_vars

(* C11: a successful update leaves the id and the createdAt of the       *)
(* addressed product as they were and changes no other product, whatever *)
(* keys the accepted body holds.                                         *)
C11_UpdateFrame ==
    [][\A r \in Reqs :
          (/\ mut[r].pc = "found"
           /\ mut[r].kind = "update"
           /\ mut'[r].pc = "idle"
           /\ last'.outcome = "ok")
          => \E p \in store, q \in store' :
                /\ p.id = mut[r].id
                /\ q.id = p.id
                /\ q.createdAt = p.createdAt
                /\ store' \ {q} = store \ {p}]_vars

(* C12: getProduct(id) answers with the product of that id when the      *)
(* table has one and with NotFound when it has none, and with no other   *)
(* failure.                                                              *)
C12_GetProduct ==
    (last.kind = "get" /\ last.id # NotUuid) =>
        IF last.id \in StoreIds(store)
        THEN last.outcome = "ok"
        ELSE last.outcome = "NotFound"

(* C13: the status of an answer follows its outcome: 4xx for a          *)
(* validation failure, 404 for NotFound of update and delete, and 500    *)
(* only for other failures.                                              *)
C13_StatusFollowsOutcome ==
    (last.kind \in {"create", "update", "delete"}) =>
        /\ last.outcome = "ValidationError" =>
              (statusOf(last.outcome) >= 400 /\ statusOf(last.outcome) <= 499)
        /\ last.outcome = "NotFound" => statusOf(last.outcome) = 404
        /\ statusOf(last.outcome) = 500 =>
              last.outcome \notin {"ValidationError", "NotFound"}

(* C14: the statements a request issues to the table form one unit: no  *)
(* write of another request falls between the first and the last of     *)
(* them.                                                                 *)
C14_OneUnit ==
    [][(\/ (off.pc = "window" /\ off' = off)
        \/ \E r \in Reqs : (mut[r].pc = "found" /\ mut'[r] = mut[r]))
       => store' = store]_vars

(* C15: a create with valid input adds exactly one product, whose id no *)
(* product of the table had, and answers with that row as persisted;     *)
(* after any creates, updates and deletes no two products share an id.   *)
C15_CreateUnique ==
    [][/\ (/\ last' # last
            /\ last'.kind = "create"
            /\ createProductSchema(last'.body))
           => /\ last'.outcome = "Created"
              /\ last'.product.id \notin StoreIds(store)
              /\ last'.product.createdAt = now
              /\ last'.product \notin store
              /\ store' = store \cup {last'.product}
              /\ Cardinality(store') = Cardinality(store) + 1
       /\ \A p, q \in store' : p.id = q.id => p = q]_vars

(* a product created after a delete, next to a product whose id a PUT    *)
(* changed                                                               *)
C15_Witness ==
    /\ last.kind = "create"
    /\ last.outcome = "Created"
    /\ Cardinality(used) > Cardinality(store)
    /\ ClientId \in StoreIds(store)
    /\ last.product \in store

(* C16: for page >= 1 and limit >= 1 the rows of an offset answer are   *)
(* the products at positions (page-1)*limit .. (page-1)*limit+limit-1 of *)
(* the table in createdAt-descending order, as far as they exist: they   *)
(* are rows of the table, newest first, as many as exist from that       *)
(* position on and at most limit, with (page-1)*limit rows before them   *)
(* that are not older and all other rows after them and not newer; none  *)
(* when the position is beyond the end, while total is the number of     *)
(* products.                                                             *)
C16_OffsetWindow ==
    [][/\ (off.pc = "idle" /\ off'.pc = "window" /\ off'.page >= 1 /\ off'.limit >= 1)
           => LET d == off'.data
                  n == Len(d)
                  skip == (off'.page - 1) * off'.limit
                  rest == store \ Range(d)
                  size == Cardinality(store)
              IN  /\ Range(d) \subseteq store
                  /\ Cardinality(Range(d)) = n
                  /\ n = IF skip >= size THEN 0 ELSE Min(off'.limit, size - skip)
                  /\ \A i \in 1..(n - 1) : d[i].createdAt >= d[i + 1].createdAt
                  /\ n > 0 =>
                        /\ \A p \in rest : \/ p.createdAt >= d[1].createdAt
                                             \/ p.createdAt <= d[n].createdAt
                        /\ Cardinality({p \in rest : p.createdAt > d[n].createdAt}) <= skip
                        /\ Cardinality({p \in rest : p.createdAt >= d[1].createdAt}) >= skip
       /\ (off.pc = "window" /\ off'.pc = "idle")
           => /\ last'.data = off.data
              /\ last'.meta.total = Cardinality(store')]_vars

(* page 2 of two products, two to the page: no rows, total 2 *)
C16_Witness ==
    /\ last.kind = "offset"
    /\ last.page = 2
    /\ last.limit = 2
    /\ last.data = <<>>
    /\ last.rows = 2
    /\ last.meta.total = 2
    /\ Cardinality(store) = 2

(* C17: whatever way update and delete requests on one id interleave,   *)
(* a request that found its product still has it when it updates or     *)
(* deletes it, and none ends with the failure the database client        *)
(* raises for a missing row.                                             *)
C17_NoRowLost ==
    /\ \A r \in DOMAIN mut : mut[r].pc = "found" => mut[r].id \in StoreIds(store)
    /\ last.kind \in {"update", "delete"} => last.outcome # "StoreError"

(* C18: with limit >= 1 and no write during the traversal, a page has   *)
(* hasNextPage = true exactly when the table holds a product ordered     *)
(* after the last row of the page (so whenever one is older than that    *)
(* row, and only if one besides it is not newer), and a traversal of n   *)
(* products takes max(1, ceil(n / limit)) calls.                         *)
C18_HasNextIffMore ==
    (trav.pc \in {"paging", "done"} /\ ~trav.dirty /\ trav.limit >= 1) =>
        LET n == Len(trav.page)
            size == Cardinality(store)
        IN  /\ n = 0 => trav.pc = "done"
            /\ n > 0 =>
                  /\ (\E p \in store : p.createdAt < trav.page[n].createdAt)
                        => trav.pc = "paging"
                  /\ trav.pc = "paging"
                        => \E p \in store \ {trav.page[n]} :
                               p.createdAt <= trav.page[n].createdAt
            /\ trav.pc = "done" =>
                  trav.calls = IF size = 0 THEN 1 ELSE Ceil(size, trav.limit)

(* C19: whatever page and limit texts querySchema accepts, the service  *)
(* is called with a page >= 1 and a limit >= 1, so that the skip handed  *)
(* to the table is never negative and the take never below 1.            *)
C19_PositivePageAndLimit ==
    (last.kind \in {"offset", "cursor"} /\ last.called) =>
        /\ last.limit >= 1
        /\ last.kind = "offset" => (last.page >= 1 /\ last.skip >= 0)
        /\ last.kind = "cursor" => last.asked >= 1

(* C20: in a traversal with creates and deletes going on, where no two  *)
(* products share a createdAt, new products are newer than all others    *)
(* and the cursor's product is not deleted, no product is returned       *)
(* twice, and every product that was there from the first call to the    *)
(* last is returned.                                                     *)
C20_TraversalUnderWrites ==
    (trav.pc # "idle") =>
        /\ Cardinality(Range(IdsOf(trav.concat))) = Len(trav.concat)
        /\ trav.pc = "done" => trav.alive \subseteq Range(IdsOf(trav.concat))

(* a traversal of several calls that ended after a product it had        *)
(* returned was deleted and a product it never returned was created,     *)
(* with a product that was there throughout                              *)
C20_Witness ==
    /\ trav.pc = "done"
    /\ trav.calls >= 2
    /\ trav.alive # {}
    /\ \E p \in Range(trav.concat) : p \notin store
    /\ \E p \in store : p \notin Range(trav.concat)

(* C21: for every limit the controller can pass and every table, a      *)
(* cursor answer has hasNextPage = true exactly when it has a            *)
(* nextCursor, and the nextCursor is the id of the last row of data, so  *)
(* data is not empty when hasNextPage is true.                           *)
C21_NextCursorIffHasNext ==
    (last.kind = "cursor" /\ last.outcome = "ok") =>
        /\ last.hasNextPage <=> last.nextCursor # Absent
        /\ last.hasNextPage => Len(last.data) > 0
        /\ last.nextCursor # Absent =>
              (/\ Len(last.data) > 0
               /\ last.nextCursor = last.data[Len(last.data)].id)

====
